---- MODULE Spec2Model ----
(***************************************************************************)
(* Console Cleaner (src/src/extension.ts, src/src/sidebar.ts).             *)
(*                                                                         *)
(* A text is a sequence of tokens.  A token is one character, except that  *)
(* the words "console", "function" and the console method names are one    *)
(* token each.  The regular expressions of the source are modelled by the  *)
(* position at which their leftmost match that starts at a given index     *)
(* ends (0: no match there), following the backtracking order of the       *)
(* JavaScript regular expression engine.                                   *)
(***************************************************************************)
EXTENDS Integers, Sequences, FiniteSets, TLC

VARIABLES
  text,      \* the text handed to the detector and the remover
  cnt,       \* the detector's result on text
  out,       \* the remover's result on text
  out2,      \* the remover's result on out
  phase,     \* "input", "counted", "cleaned", "recleaned"; "none": not in use
  consoleMethods,        \* config.consoleMethods
  confirmBeforeCleaning, \* config.confirmBeforeCleaning
  workspaceOpen,         \* vscode.workspace.workspaceFolders is not empty
  disk,                  \* the files of the workspace folder
  filesWithConsoleLogs,  \* the scan-result map, in insertion order
  activated,             \* sidebarProviderInstance is defined
  isScanning,            \* SidebarProvider._isScanning
  isCleaning,            \* SidebarProvider._isCleaning
  scans,                 \* the running calls of scanWorkspace
  cleanAll,              \* the call of cleanWorkspace
  cleanOne,              \* the call of cleanSingleFileCommand
  startupTimer,          \* seconds left of the startup timer (-1: none)
  scanTimeout,           \* seconds left of the debounce timer (-1: none)
  stale,                 \* paths of entries whose file changed since it was read
  events                 \* number of user and file-system events so far

textVars == <<text, cnt, out, out2, phase>>

configVars == <<consoleMethods, confirmBeforeCleaning, workspaceOpen>>

sysVars ==
  <<confirmBeforeCleaning, workspaceOpen, disk, filesWithConsoleLogs,
    activated, isScanning, isCleaning, scans, cleanAll, cleanOne,
    startupTimer, scanTimeout, stale, events>>

Min(S) == CHOOSE x \in S : \A y \in S : x <= y

Max(S) == CHOOSE x \in S : \A y \in S : x >= y

\* \s
IsSpace(c) == c \in {" ", "\t", "\n"}

\* [ \t]
IsBlank(c) == c \in {" ", "\t"}

\* \s* (greedy) from i: the first index at or after i that holds no white space
SkipSpace(s, i) ==
  LET stops == {k \in i..Len(s) : ~IsSpace(s[k])}
  IN  IF stops = {} THEN Len(s) + 1 ELSE Min(stops)

\* [ \t]* (greedy) from i
SkipBlank(s, i) ==
  LET stops == {k \in i..Len(s) : ~IsBlank(s[k])}
  IN  IF stops = {} THEN Len(s) + 1 ELSE Min(stops)

\* ^ under the m flag
IsLineStart(s, i) == i = 1 \/ s[i - 1] = "\n"

\* $ under the m flag
IsLineEnd(s, e) == e = Len(s) + 1 \/ s[e] = "\n"

\* the same without the \s* parts
consoleCallNoSpace(s, i, methods) ==
  IF /\ i >= 1 /\ i + 3 <= Len(s) /\ s[i] = "console" /\ s[i + 1] = "."
     /\ s[i + 2] \in methods /\ s[i + 3] = "("
  THEN i + 4 ELSE 0

\* console\s*\.\s*(methods)\s*\(  starting at i: the index after "(", or 0
consoleCall(s, i, methods) ==
  LET n == Len(s)
      d == SkipSpace(s, i + 1)
      m == SkipSpace(s, d + 1)
      p == SkipSpace(s, m + 1)
  IN  IF /\ i >= 1 /\ i <= n /\ s[i] = "console"
         /\ d <= n /\ s[d] = "."
         /\ m <= n /\ s[m] \in methods
         /\ p <= n /\ s[p] = "("
      THEN p + 1 ELSE 0

\* \s*;?\s*$  starting at k: the index after the match, or 0
statementTail(s, k) ==
  LET n == Len(s)
      w == SkipSpace(s, k)
      w2 == SkipSpace(s, w + 1)
      afterSemi == {e \in (w + 1)..w2 : IsLineEnd(s, e)}
      inRun == {e \in k..(w - 1) : s[e] = "\n"}
  IN  IF w <= n /\ s[w] = ";" /\ afterSemi # {} THEN Max(afterSemi)
      ELSE IF w = n + 1 THEN w
      ELSE IF inRun # {} THEN Max(inRun)
      ELSE 0

\* String.replace with the g flag: ends[i] is the end of the match that
\* starts at i (0: none), subs[i] its replacement
Replace(s, ends, subs) ==
  LET n == Len(s)
      rest[i \in 1..(n + 1)] ==
        IF i > n THEN << >>
        ELSE IF ends[i] # 0 THEN subs[i] \o rest[ends[i]]
        ELSE <<s[i]>> \o rest[i + 1]
  IN  rest[1]

\* the replacement ""
Erase(s) == [i \in 1..Len(s) |-> << >>]

\* ^[ \t]*console\s*\.\s*(methods)\s*\([^;]*\)\s*;?\s*$
singleLinePattern(s, i, methods) ==
  IF ~IsLineStart(s, i) THEN 0
  ELSE LET n == Len(s)
           h == consoleCall(s, SkipBlank(s, i), methods)
           semis == {k \in h..n : s[k] = ";"}
           semi == IF semis = {} THEN n + 1 ELSE Min(semis)
           closers == {j \in h..(semi - 1) :
                         s[j] = ")" /\ statementTail(s, j + 1) # 0}
       IN  IF h = 0 \/ closers = {} THEN 0
           ELSE statementTail(s, Max(closers) + 1)

\* ^[ \t]*console\s*\.\s*(methods)\s*\([^)]*(?:\([^)]*\)[^)]*)*\)\s*;?\s*$
multiLinePattern(s, i, methods) ==
  IF ~IsLineStart(s, i) THEN 0
  ELSE LET n == Len(s)
           h == consoleCall(s, SkipBlank(s, i), methods)
           \* the ")" at j can close a nested group: a "(" precedes it with
           \* no ")" in between
           closesGroup(j) ==
             \E o \in h..(j - 1) :
               s[o] = "(" /\ \A k \in o..(j - 1) : s[k] # ")"
           closers == {j \in h..n :
                         /\ s[j] = ")"
                         /\ \A g \in h..(j - 1) : s[g] = ")" => closesGroup(g)
                         /\ statementTail(s, j + 1) # 0}
       IN  IF h = 0 \/ closers = {} THEN 0
           ELSE statementTail(s, Min(closers) + 1)

\* console\s*\.\s*(methods)\s*\([^;{}]*?\)\s*;?   (flags gs)
complexPattern(s, i, methods) ==
  LET n == Len(s)
      h == consoleCall(s, i, methods)
      stops == {j \in h..n : s[j] \in {")", ";", "{", "}"}}
      j == Min(stops)
      w == SkipSpace(s, j + 1)
  IN  IF h = 0 \/ stops = {} THEN 0
      ELSE IF s[j] # ")" THEN 0
      ELSE IF w <= n /\ s[w] = ";" THEN w + 1
      ELSE w

\* the replacement callback of the iterative pass
complexReplacer(s, i, e) ==
  LET match == SubSeq(s, i, e - 1)
      includes(w) == \E k \in 1..Len(match) : match[k] = w
  IN  IF ~includes("{") /\ ~includes("function") THEN << >> ELSE match

\* ^[ \t]*\/\/\s*console\s*\.\s*(methods)\s*\(.*$
commentedPattern(s, i, methods) ==
  IF ~IsLineStart(s, i) THEN 0
  ELSE LET n == Len(s)
           b == SkipBlank(s, i)
           h == consoleCall(s, SkipSpace(s, b + 2), methods)
           ends == {e \in h..(n + 1) : IsLineEnd(s, e)}
       IN  IF b + 1 <= n /\ s[b] = "/" /\ s[b + 1] = "/" /\ h # 0
           THEN Min(ends) ELSE 0

\* \/\*[\s\S]*?console\s*\.\s*(methods)\s*\([\s\S]*?\*\/
blockCommentPattern(s, i, methods) ==
  LET n == Len(s)
      heads == {h \in (i + 2)..n : consoleCall(s, h, methods) # 0}
      he == consoleCall(s, Min(heads), methods)
      closes == {c \in he..(n - 1) : s[c] = "*" /\ s[c + 1] = "/"}
  IN  IF i + 1 <= n /\ s[i] = "/" /\ s[i + 1] = "*" /\ heads # {}
      THEN IF closes # {} THEN Min(closes) + 2 ELSE 0
      ELSE 0

\* \n\s*\n\s*\n\s*\n
excessBlankLines(s, i) ==
  LET w == SkipSpace(s, i)
      nls == {k \in i..(w - 1) : s[k] = "\n"}
  IN  IF i <= Len(s) /\ s[i] = "\n" /\ Cardinality(nls) >= 4
      THEN Max(nls) + 1 ELSE 0

\* the replacement "\\n\\n\\n"
ThreeNewlines(s) == [i \in 1..Len(s) |-> <<"\n", "\n", "\n">>]

\* ^[ \t]+$
blankOnlyLine(s, i) ==
  LET b == SkipBlank(s, i)
  IN  IF IsLineStart(s, i) /\ b > i /\ IsLineEnd(s, b) THEN b ELSE 0

maxIterations == 5

\* one application of the substitution of the iterative pass
complexPass(s, methods) ==
  LET ends == [i \in 1..Len(s) |-> complexPattern(s, i, methods)]
      subs == [i \in 1..Len(s) |->
                 IF ends[i] # 0 THEN complexReplacer(s, i, ends[i]) ELSE << >>]
  IN  Replace(s, ends, subs)

\* the substitution is applied once, whatever it leaves
complexLoopOnce(result, previousResult, iterations, methods) ==
  [result |-> complexPass(result, methods), previousResult |-> result,
   iterations |-> iterations + 1]

\* the while loop of the iterative pass, from the state (result,
\* previousResult, iterations) to its state on exit
RECURSIVE complexLoop(_, _, _, _)
complexLoop(result, previousResult, iterations, methods) ==
  IF previousResult # result /\ iterations < maxIterations
  THEN complexLoop(complexPass(result, methods), result, iterations + 1,
                   methods)
  ELSE [result |-> result, previousResult |-> previousResult,
        iterations |-> iterations]

\* result.replace(singleLinePattern, "")
singleLinePass(r, methods) ==
  Replace(r, [i \in 1..Len(r) |-> singleLinePattern(r, i, methods)], Erase(r))

\* result.replace(multiLinePattern, "")
multiLinePass(r, methods) ==
  Replace(r, [i \in 1..Len(r) |-> multiLinePattern(r, i, methods)], Erase(r))

\* result.replace(commentedPattern, "")
commentedPass(r, methods) ==
  Replace(r, [i \in 1..Len(r) |-> commentedPattern(r, i, methods)], Erase(r))

\* result.replace(blockCommentPattern, "")
blockCommentPass(r, methods) ==
  Replace(r, [i \in 1..Len(r) |-> blockCommentPattern(r, i, methods)],
          Erase(r))

\* result.replace(/\n\s*\n\s*\n\s*\n/g, "\n\n\n")
excessBlankLinesPass(r) ==
  Replace(r, [i \in 1..Len(r) |-> excessBlankLines(r, i)], ThreeNewlines(r))

\* result.replace(/^[ \t]+$/gm, "")
blankOnlyLinePass(r) ==
  Replace(r, [i \in 1..Len(r) |-> blankOnlyLine(r, i)], Erase(r))

removeConsoleLogs(content, methods) ==
  blankOnlyLinePass(excessBlankLinesPass(blockCommentPass(commentedPass(
    complexLoop(multiLinePass(singleLinePass(content, methods), methods),
                << >>, 0, methods).result,
    methods), methods)))

\* content.match(regex) with the g flag: the number of matches
countConsoleLogs(content, methods) ==
  LET n == Len(content)
      matches[i \in 1..(n + 1)] ==
        IF i > n THEN 0
        ELSE LET e == consoleCall(content, i, methods)
             IN  IF e # 0 THEN 1 + matches[e] ELSE matches[i + 1]
  IN  matches[1]

(***************************************************************************)
(* The extension: the workspace, the scan-result map, scans and cleans.    *)
(***************************************************************************)
CALL == <<"console", ".", "log", "(", "x", ")">>

HEAD == <<"console", ".", "log", "(">>

\* a call the remover leaves in place: it is not alone on its line and its
\* argument holds a brace
KEPT == <<"x", ";", "console", ".", "log", "(", "{", "}", ")">>

MaxEvents == 1

\* the texts a file can hold at the start or after an edit
FileTexts(p) == IF p = "a.js" THEN {<<"x">>, CALL} ELSE {CALL, KEPT}

ConfigMethods == {{"log"}, {"warn"}}

\* the workspace folder: a file and a folder that holds a file
Root == "."

Children(dir) ==
  IF dir = Root THEN <<"a.js", "sub">>
  ELSE IF dir = "sub" THEN <<"sub/b.js">>
  ELSE << >>

Dirs == {Root, "sub"}

Paths == {"a.js", "sub/b.js"}

ScanIds == {1, 2}

NoFile == [exists |-> FALSE, text |-> << >>]

File(t) == [exists |-> TRUE, text |-> t]

\* setTimeout(..., 1000) and setTimeout(..., 2000), in seconds
StartupDelay == 1

DebounceDelay == 2

\* Map: keys(), has, set, delete
Keys(map) == {map[k].path : k \in 1..Len(map)}

MapGet(map, p) ==
  LET at == {k \in 1..Len(map) : map[k].path = p}
  IN  IF at = {} THEN 0 ELSE map[Min(at)].count

MapSet(map, p, n) ==
  IF p \in Keys(map)
  THEN [k \in 1..Len(map) |->
          IF map[k].path = p THEN [path |-> p, count |-> n] ELSE map[k]]
  ELSE Append(map, [path |-> p, count |-> n])

MapDelete(map, p) ==
  LET Other(e) == e.path # p IN SelectSeq(map, Other)

MapKeyList(map) == [k \in 1..Len(map) |-> map[k].path]

IdleScan ==
  [pc |-> "idle", todo |-> << >>, methods |-> {},
   content |-> [ok |-> FALSE, text |-> << >>], fresh |-> TRUE]

IdleCleanAll ==
  [pc |-> "idle", filesList |-> << >>, i |-> 0, cleanedCount |-> 0,
   errorCount |-> 0, cleaned |-> << >>, attempted |-> << >>,
   asked |-> FALSE, answer |-> ""]

IdleCleanOne ==
  [pc |-> "idle", filePath |-> "", cleaned |-> << >>, success |-> FALSE,
   asked |-> FALSE, answer |-> ""]

\* the state after activate()
Init ==
  /\ consoleMethods = {"log"}
  /\ confirmBeforeCleaning \in BOOLEAN
  /\ workspaceOpen \in BOOLEAN
  /\ disk \in [Paths -> {NoFile} \cup {File(t) : t \in FileTexts("a.js") \cup FileTexts("sub/b.js")}]
  /\ \A p \in Paths : disk[p].exists => disk[p].text \in FileTexts(p)
  /\ filesWithConsoleLogs = << >>
  /\ activated = TRUE
  /\ isScanning = FALSE
  /\ isCleaning = FALSE
  /\ scans = [s \in ScanIds |-> IdleScan]
  /\ cleanAll = IdleCleanAll
  /\ cleanOne = IdleCleanOne
  /\ startupTimer \in {-1, StartupDelay}
  /\ scanTimeout = -1
  /\ stale = {}
  /\ events = 0
  /\ text = << >> /\ cnt = 0 /\ out = << >> /\ out2 = << >> /\ phase = "none"

\* a timer that is pending is left to run
debouncedScanNoCancel(timer) == IF timer >= 0 THEN timer ELSE DebounceDelay

\* the watcher's create and change handler: debouncedScan clears the pending
\* timer and sets a new one
debouncedScan(timer) == DebounceDelay

\* a file is created or changed: onDidCreate, onDidChange
FileChanged ==
  scanTimeout' = IF activated THEN debouncedScan(scanTimeout) ELSE scanTimeout

\* the scans with what they have read of p marked out of date
Outdated(p) ==
  [s \in ScanIds |->
     IF scans[s].pc = "count" /\ Head(scans[s].todo) = p
     THEN [scans[s] EXCEPT !.fresh = FALSE] ELSE scans[s]]

\* scanWorkspace(), up to its first await
scanWorkspace ==
  IF ~workspaceOpen
  THEN UNCHANGED <<filesWithConsoleLogs, isScanning, scans, stale>>
  ELSE /\ \E s \in ScanIds :
            /\ scans[s].pc = "idle"
            /\ \A r \in ScanIds : scans[r].pc = "idle" => s <= r
            /\ scans' = [scans EXCEPT ![s] = [IdleScan EXCEPT !.pc = "scanDir",
                                                !.todo = <<Root>>]]
       /\ filesWithConsoleLogs' = << >>
       /\ stale' = {}
       /\ isScanning' = IF activated THEN TRUE ELSE isScanning

\* the rescan command
Rescan ==
  /\ activated /\ events < MaxEvents
  /\ events' = events + 1
  /\ scanWorkspace
  /\ UNCHANGED <<textVars, configVars, disk, activated, isCleaning, cleanAll,
                 cleanOne, startupTimer, scanTimeout>>

\* the startup timer fires
StartupScan ==
  /\ startupTimer = 0
  /\ startupTimer' = -1
  /\ scanWorkspace
  /\ UNCHANGED <<textVars, configVars, disk, activated, isCleaning, cleanAll,
                 cleanOne, scanTimeout, events>>

\* the debounce timer fires
DebouncedScan ==
  /\ scanTimeout = 0
  /\ scanTimeout' = -1
  /\ scanWorkspace
  /\ UNCHANGED <<textVars, configVars, disk, activated, isCleaning, cleanAll,
                 cleanOne, startupTimer, events>>

\* onDidChangeConfiguration
ConfigChange ==
  /\ activated /\ events < MaxEvents
  /\ events' = events + 1
  /\ \E m \in ConfigMethods, c \in BOOLEAN :
       /\ <<m, c>> # <<consoleMethods, confirmBeforeCleaning>>
       /\ consoleMethods' = m
       /\ confirmBeforeCleaning' = c
  /\ scanWorkspace
  /\ UNCHANGED <<textVars, workspaceOpen, disk, activated, isCleaning,
                 cleanAll, cleanOne, startupTimer, scanTimeout>>

\* a second passes
Tick ==
  /\ startupTimer # 0 /\ scanTimeout # 0
  /\ startupTimer > 0 \/ scanTimeout > 0
  /\ startupTimer' = IF startupTimer > 0 THEN startupTimer - 1 ELSE startupTimer
  /\ scanTimeout' = IF scanTimeout > 0 THEN scanTimeout - 1 ELSE scanTimeout
  /\ UNCHANGED <<textVars, configVars, disk, filesWithConsoleLogs, activated,
                 isScanning, isCleaning, scans, cleanAll, cleanOne, stale,
                 events>>

\* the rest of the scan s after the entry at the head of its list
ScanNext(s, todo) ==
  [scans EXCEPT ![s] = [IdleScan EXCEPT !.pc = "scanDir", !.todo = todo]]

\* scanDir: readdir (for a subfolder, after its stat) answers
ScanReadDir(s) ==
  /\ scans[s].pc = "scanDir" /\ scans[s].todo # << >>
  /\ Head(scans[s].todo) \in Dirs
  /\ \E ok \in BOOLEAN :
       LET dir == Head(scans[s].todo)
           Listed(c) == c \in Dirs \/ disk[c].exists
           found == IF ok THEN SelectSeq(Children(dir), Listed) ELSE << >>
       IN  scans' = ScanNext(s, found \o Tail(scans[s].todo))
  /\ UNCHANGED <<textVars, configVars, disk, filesWithConsoleLogs, activated,
                 isScanning, isCleaning, cleanAll, cleanOne, startupTimer,
                 scanTimeout, stale, events>>

\* scanDir: stat of a file answers; countConsoleLogs reads the configuration
\* and starts to read the file
ScanStat(s) ==
  /\ scans[s].pc = "scanDir" /\ scans[s].todo # << >>
  /\ Head(scans[s].todo) \in Paths
  /\ \E ok \in BOOLEAN :
       IF ok /\ disk[Head(scans[s].todo)].exists
       THEN scans' = [scans EXCEPT ![s].pc = "read",
                                   ![s].methods = consoleMethods]
       ELSE scans' = ScanNext(s, Tail(scans[s].todo))
  /\ UNCHANGED <<textVars, configVars, disk, filesWithConsoleLogs, activated,
                 isScanning, isCleaning, cleanAll, cleanOne, startupTimer,
                 scanTimeout, stale, events>>

\* countConsoleLogs: the file is read
ScanRead(s) ==
  /\ scans[s].pc = "read"
  /\ \E ok \in BOOLEAN :
       LET f == disk[Head(scans[s].todo)]
       IN  scans' = [scans EXCEPT
                       ![s].pc = "count",
                       ![s].fresh = TRUE,
                       ![s].content = IF ok /\ f.exists
                                      THEN [ok |-> TRUE, text |-> f.text]
                                      ELSE [ok |-> FALSE, text |-> << >>]]
  /\ UNCHANGED <<textVars, configVars, disk, filesWithConsoleLogs, activated,
                 isScanning, isCleaning, cleanAll, cleanOne, startupTimer,
                 scanTimeout, stale, events>>

\* scanDir: a count that is 0 is recorded as well
recordCountAlways(map, p, n) == MapSet(map, p, n)

\* scanDir: if (consoleCount > 0) filesWithConsoleLogs.set(fullPath, consoleCount)
recordCount(map, p, n) == IF n > 0 THEN MapSet(map, p, n) ELSE map

\* countConsoleLogs returns and scanDir records the count
ScanCount(s) ==
  /\ scans[s].pc = "count"
  /\ LET p == Head(scans[s].todo)
         n == IF scans[s].content.ok
              THEN countConsoleLogs(scans[s].content.text, scans[s].methods)
              ELSE 0
     IN  /\ filesWithConsoleLogs' = recordCount(filesWithConsoleLogs, p, n)
         /\ stale' = IF n > 0
                     THEN IF scans[s].fresh THEN stale \ {p} ELSE stale \cup {p}
                     ELSE stale
  /\ scans' = ScanNext(s, Tail(scans[s].todo))
  /\ UNCHANGED <<textVars, configVars, disk, activated, isScanning,
                 isCleaning, cleanAll, cleanOne, startupTimer, scanTimeout,
                 events>>

\* scanDir has returned: setScanning(false)
ScanFinish(s) ==
  /\ scans[s].pc = "scanDir" /\ scans[s].todo = << >>
  /\ scans' = [scans EXCEPT ![s] = IdleScan]
  /\ isScanning' = IF activated THEN FALSE ELSE isScanning
  /\ UNCHANGED <<textVars, configVars, disk, filesWithConsoleLogs, activated,
                 isCleaning, cleanAll, cleanOne, startupTimer, scanTimeout,
                 stale, events>>

\* cleanFile writes whatever the remover returns
needsWriteAlways(cleaned, content) == TRUE

\* cleanFile: if (cleaned !== content) the file is written
needsWrite(cleaned, content) == cleaned # content

\* cleanFile: the text read, and whether the read succeeded
ReadResult(p, ok) ==
  IF ok /\ disk[p].exists THEN [ok |-> TRUE, text |-> disk[p].text]
  ELSE [ok |-> FALSE, text |-> << >>]

\* cleanWorkspace: the loop stops at the first file that fails
cleanNextAbort(c, success) ==
  IF success
  THEN [c EXCEPT !.cleanedCount = @ + 1, !.i = @ + 1, !.cleaned = << >>,
                 !.pc = IF c.i + 1 > Len(c.filesList) THEN "done" ELSE "read"]
  ELSE [c EXCEPT !.errorCount = @ + 1, !.cleaned = << >>, !.pc = "done"]

\* cleanWorkspace: cleanFile has returned success for filesList[i]; the loop
\* goes on to the next file or ends
cleanNext(c, success) ==
  [c EXCEPT !.cleanedCount = IF success THEN @ + 1 ELSE @,
            !.errorCount = IF success THEN @ ELSE @ + 1,
            !.i = @ + 1,
            !.cleaned = << >>,
            !.pc = IF c.i + 1 > Len(c.filesList) THEN "done" ELSE "read"]

\* the entry is deleted whether the clean succeeded or not
afterCleanAlways(map, p, success) == MapDelete(map, p)

\* if (success) filesWithConsoleLogs.delete(filePath)
afterClean(map, p, success) == IF success THEN MapDelete(map, p) ELSE map

\* the command cleans without asking
afterCommandNoPrompt(confirm) == "read"

\* if (config.confirmBeforeCleaning) the modal is shown and awaited, else the
\* command goes on to clean
afterCommand(confirm) == IF confirm THEN "confirm" ELSE "read"

\* the clean-all command: cleanWorkspace() up to its first await
CleanWorkspace ==
  /\ activated /\ events < MaxEvents
  /\ cleanAll.pc \in {"idle", "done"}
  /\ events' = events + 1
  /\ IF ~workspaceOpen \/ filesWithConsoleLogs = << >>
     THEN UNCHANGED <<cleanAll, isCleaning>>
     ELSE /\ cleanAll' =
               [IdleCleanAll EXCEPT
                  !.pc = afterCommand(confirmBeforeCleaning),
                  !.asked = confirmBeforeCleaning,
                  !.filesList = MapKeyList(filesWithConsoleLogs),
                  !.i = 1]
          /\ isCleaning' = IF confirmBeforeCleaning THEN isCleaning ELSE TRUE
  /\ UNCHANGED <<textVars, configVars, disk, filesWithConsoleLogs, activated,
                 isScanning, scans, cleanOne, startupTimer, scanTimeout, stale>>

\* the modal of cleanWorkspace is answered
CleanWorkspaceAnswer ==
  /\ cleanAll.pc = "confirm"
  /\ \E result \in {"Yes, Clean All", "dismissed"} :
       IF result # "Yes, Clean All"
       THEN cleanAll' = IdleCleanAll /\ UNCHANGED isCleaning
       ELSE /\ cleanAll' = [cleanAll EXCEPT !.pc = "read", !.answer = result]
            /\ isCleaning' = IF activated THEN TRUE ELSE isCleaning
  /\ UNCHANGED <<textVars, configVars, disk, filesWithConsoleLogs, activated,
                 isScanning, scans, cleanOne, startupTimer, scanTimeout, stale,
                 events>>

\* cleanWorkspace: cleanFile(filesList[i]) has read the file
CleanWorkspaceRead ==
  /\ cleanAll.pc = "read"
  /\ \E ok \in BOOLEAN :
       LET p == cleanAll.filesList[cleanAll.i]
           content == ReadResult(p, ok)
           cleaned == removeConsoleLogs(content.text, consoleMethods)
           c == [cleanAll EXCEPT !.attempted = Append(@, p)]
       IN  IF content.ok /\ needsWrite(cleaned, content.text)
           THEN /\ cleanAll' = [c EXCEPT !.pc = "write", !.cleaned = cleaned]
                /\ UNCHANGED <<filesWithConsoleLogs, isCleaning, stale>>
           ELSE /\ cleanAll' = cleanNext(c, content.ok)
                /\ filesWithConsoleLogs' =
                     afterClean(filesWithConsoleLogs, p, content.ok)
                /\ stale' = IF content.ok THEN stale \ {p} ELSE stale
                /\ isCleaning' = IF cleanAll'.pc = "done" /\ activated
                                 THEN FALSE ELSE isCleaning
  /\ UNCHANGED <<textVars, configVars, disk, activated, isScanning, scans,
                 cleanOne, startupTimer, scanTimeout, events>>

\* cleanWorkspace: cleanFile(filesList[i]) has written the file, or failed to
CleanWorkspaceWrite ==
  /\ cleanAll.pc = "write"
  /\ \E ok \in BOOLEAN :
       LET p == cleanAll.filesList[cleanAll.i]
       IN  /\ cleanAll' = cleanNext(cleanAll, ok)
           /\ filesWithConsoleLogs' = afterClean(filesWithConsoleLogs, p, ok)
           /\ isCleaning' = IF cleanAll'.pc = "done" /\ activated
                            THEN FALSE ELSE isCleaning
           /\ IF ok
              THEN /\ disk' = [disk EXCEPT ![p] = File(cleanAll.cleaned)]
                   /\ scans' = Outdated(p)
                   /\ stale' = stale \ {p}
                   /\ FileChanged
              ELSE UNCHANGED <<disk, scans, stale, scanTimeout>>
  /\ UNCHANGED <<textVars, configVars, activated, isScanning, cleanOne,
                 startupTimer, events>>

\* the clean-one-file command: cleanSingleFileCommand(p) up to its first await
CleanSingleFile ==
  /\ activated /\ events < MaxEvents
  /\ cleanOne.pc \in {"idle", "done"}
  /\ events' = events + 1
  /\ \E p \in Paths :
       cleanOne' =
         [IdleCleanOne EXCEPT
            !.pc = afterCommand(confirmBeforeCleaning),
            !.asked = confirmBeforeCleaning,
            !.filePath = p]
  /\ isCleaning' = IF confirmBeforeCleaning THEN isCleaning ELSE TRUE
  /\ UNCHANGED <<textVars, configVars, disk, filesWithConsoleLogs, activated,
                 isScanning, scans, cleanAll, startupTimer, scanTimeout, stale>>

\* the modal of cleanSingleFileCommand is answered
CleanSingleFileAnswer ==
  /\ cleanOne.pc = "confirm"
  /\ \E confirmation \in {"Yes, Clean", "dismissed"} :
       IF confirmation # "Yes, Clean"
       THEN cleanOne' = IdleCleanOne /\ UNCHANGED isCleaning
       ELSE /\ cleanOne' = [cleanOne EXCEPT !.pc = "read",
                                                !.answer = confirmation]
            /\ isCleaning' = IF activated THEN TRUE ELSE isCleaning
  /\ UNCHANGED <<textVars, configVars, disk, filesWithConsoleLogs, activated,
                 isScanning, scans, cleanAll, startupTimer, scanTimeout, stale,
                 events>>

\* cleanSingleFileCommand after cleanFile has returned
CleanSingleFileDone(success) ==
  /\ cleanOne' = [cleanOne EXCEPT !.pc = "done", !.cleaned = << >>,
                                  !.success = success]
  /\ filesWithConsoleLogs' =
       afterClean(filesWithConsoleLogs, cleanOne.filePath, success)
  /\ isCleaning' = IF activated THEN FALSE ELSE isCleaning

\* cleanSingleFileCommand: cleanFile(filePath) has read the file
CleanSingleFileRead ==
  /\ cleanOne.pc = "read"
  /\ \E ok \in BOOLEAN :
       LET p == cleanOne.filePath
           content == ReadResult(p, ok)
           cleaned == removeConsoleLogs(content.text, consoleMethods)
       IN  IF content.ok /\ needsWrite(cleaned, content.text)
           THEN /\ cleanOne' = [cleanOne EXCEPT !.pc = "write",
                                                !.cleaned = cleaned]
                /\ UNCHANGED <<filesWithConsoleLogs, isCleaning, stale>>
           ELSE /\ CleanSingleFileDone(content.ok)
                /\ stale' = IF content.ok THEN stale \ {p} ELSE stale
  /\ UNCHANGED <<textVars, configVars, disk, activated, isScanning, scans,
                 cleanAll, startupTimer, scanTimeout, events>>

\* cleanSingleFileCommand: cleanFile(filePath) has written the file, or
\* failed to
CleanSingleFileWrite ==
  /\ cleanOne.pc = "write"
  /\ \E ok \in BOOLEAN :
       LET p == cleanOne.filePath
       IN  /\ CleanSingleFileDone(ok)
           /\ IF ok
              THEN /\ disk' = [disk EXCEPT ![p] = File(cleanOne.cleaned)]
                   /\ scans' = Outdated(p)
                   /\ stale' = stale \ {p}
                   /\ FileChanged
              ELSE UNCHANGED <<disk, scans, stale, scanTimeout>>
  /\ UNCHANGED <<textVars, configVars, activated, isScanning, cleanAll,
                 startupTimer, events>>

\* a file is created or edited outside the extension
EditFile ==
  /\ events < MaxEvents
  /\ events' = events + 1
  /\ \E p \in Paths : \E t \in FileTexts(p) :
       /\ disk[p] # File(t)
       /\ disk' = [disk EXCEPT ![p] = File(t)]
       /\ scans' = Outdated(p)
       /\ stale' = IF p \in Keys(filesWithConsoleLogs)
                   THEN stale \cup {p} ELSE stale
  /\ FileChanged
  /\ UNCHANGED <<textVars, configVars, filesWithConsoleLogs, activated,
                 isScanning, isCleaning, cleanAll, cleanOne, startupTimer>>

\* a file is deleted outside the extension: onDidDelete
DeleteFile ==
  /\ events < MaxEvents
  /\ events' = events + 1
  /\ \E p \in Paths :
       /\ disk[p].exists
       /\ disk' = [disk EXCEPT ![p] = NoFile]
       /\ scans' = Outdated(p)
       /\ IF activated
          THEN /\ filesWithConsoleLogs' = MapDelete(filesWithConsoleLogs, p)
               /\ stale' = stale \ {p}
          ELSE /\ UNCHANGED filesWithConsoleLogs
               /\ stale' = IF p \in Keys(filesWithConsoleLogs)
                           THEN stale \cup {p} ELSE stale
  /\ UNCHANGED <<textVars, configVars, activated, isScanning, isCleaning,
                 cleanAll, cleanOne, startupTimer, scanTimeout>>

\* deactivate()
Deactivate ==
  /\ activated /\ events < MaxEvents
  /\ events' = events + 1
  /\ filesWithConsoleLogs' = << >>
  /\ stale' = {}
  /\ activated' = FALSE
  /\ UNCHANGED <<textVars, configVars, disk, isScanning, isCleaning, scans,
                 cleanAll, cleanOne, startupTimer, scanTimeout>>

Next ==
  \/ Rescan \/ StartupScan \/ DebouncedScan \/ ConfigChange \/ Tick
  \/ \E s \in ScanIds :
       ScanReadDir(s) \/ ScanStat(s) \/ ScanRead(s) \/ ScanCount(s)
         \/ ScanFinish(s)
  \/ CleanWorkspace \/ CleanWorkspaceAnswer \/ CleanWorkspaceRead
  \/ CleanWorkspaceWrite
  \/ CleanSingleFile \/ CleanSingleFileAnswer \/ CleanSingleFileRead
  \/ CleanSingleFileWrite
  \/ EditFile \/ DeleteFile \/ Deactivate

vars == <<textVars, consoleMethods, sysVars>>

Spec == Init /\ [][Next]_vars

(***************************************************************************)
(* The detector and the remover as pure functions: the inputs.             *)
(***************************************************************************)
MaxChunks == 4

RemoveChunks ==
  {CALL, HEAD, <<")">>, <<";">>, <<"\n">>, <<" ">>, <<"x">>, <<"/", "/">>}

DetectChunks ==
  {HEAD, <<"console">>, <<".", "log">>, <<".", "warn">>, <<"(">>, <<"\n">>}

MethodSets == {{"log"}, {"log", "warn"}}

RECURSIVE Flatten(_)
Flatten(chunks) ==
  IF chunks = << >> THEN << >> ELSE Head(chunks) \o Flatten(Tail(chunks))

\* the texts made of at most max chunks
TextsOf(chunkSet, max) ==
  UNION {{Flatten(c) : c \in [1..k -> chunkSet]} : k \in 0..max}

TextInputs ==
  (TextsOf(RemoveChunks, MaxChunks) \X {{"log"}})
    \cup (TextsOf(DetectChunks, MaxChunks) \X MethodSets)

InitText ==
  /\ \E in \in TextInputs : text = in[1] /\ consoleMethods = in[2]
  /\ cnt = 0
  /\ out = << >>
  /\ out2 = << >>
  /\ phase = "input"
  /\ confirmBeforeCleaning = TRUE
  /\ workspaceOpen = FALSE
  /\ disk = [p \in Paths |-> NoFile]
  /\ filesWithConsoleLogs = << >>
  /\ activated = FALSE
  /\ isScanning = FALSE
  /\ isCleaning = FALSE
  /\ scans = [s \in ScanIds |-> IdleScan]
  /\ cleanAll = IdleCleanAll
  /\ cleanOne = IdleCleanOne
  /\ startupTimer = -1
  /\ scanTimeout = -1
  /\ stale = {}
  /\ events = 0

\* detectCount(text, consoleMethods)
Detect ==
  /\ phase = "input"
  /\ cnt' = countConsoleLogs(text, consoleMethods)
  /\ phase' = "counted"
  /\ UNCHANGED <<text, out, out2, consoleMethods, sysVars>>

\* removeStatements(text, consoleMethods)
Clean ==
  /\ phase = "counted"
  /\ out' = removeConsoleLogs(text, consoleMethods)
  /\ phase' = "cleaned"
  /\ UNCHANGED <<text, cnt, out2, consoleMethods, sysVars>>

\* removeStatements(removeStatements(text, consoleMethods), consoleMethods)
CleanAgain ==
  /\ phase = "cleaned"
  /\ out2' = removeConsoleLogs(out, consoleMethods)
  /\ phase' = "recleaned"
  /\ UNCHANGED <<text, cnt, out, consoleMethods, sysVars>>

NextText == Detect \/ Clean \/ CleanAgain

SpecText == InitText /\ [][NextText]_vars

(***************************************************************************)
(* The iterative pass on its own: texts with calls inside calls.           *)
(***************************************************************************)
MaxNest == 6

\* k times "console." and then m times "log(x)": with k = m a call that k
\* applications of the substitution take apart from the inside
RECURSIVE Repeat(_, _)
Repeat(chunk, k) == IF k = 0 THEN << >> ELSE chunk \o Repeat(chunk, k - 1)

Nest(k, m) ==
  Repeat(<<"console", ".">>, k) \o Repeat(<<"log", "(", "x", ")">>, m)

LoopInputs ==
  {Nest(k, m) : k \in 0..MaxNest, m \in 0..MaxNest}
    \cup TextsOf(RemoveChunks, MaxChunks)

InitLoop ==
  /\ text \in LoopInputs
  /\ consoleMethods = {"log"}
  /\ cnt = 0
  /\ out = << >>
  /\ out2 = << >>
  /\ phase = "input"
  /\ confirmBeforeCleaning = TRUE
  /\ workspaceOpen = FALSE
  /\ disk = [p \in Paths |-> NoFile]
  /\ filesWithConsoleLogs = << >>
  /\ activated = FALSE
  /\ isScanning = FALSE
  /\ isCleaning = FALSE
  /\ scans = [s \in ScanIds |-> IdleScan]
  /\ cleanAll = IdleCleanAll
  /\ cleanOne = IdleCleanOne
  /\ startupTimer = -1
  /\ scanTimeout = -1
  /\ stale = {}
  /\ events = 0

\* the text the iterative pass starts from: what the first two passes leave
loopInput(content, methods) ==
  multiLinePass(singleLinePass(content, methods), methods)

\* removeConsoleLogs up to the end of the iterative pass: out, out2 and cnt
\* take result, previousResult and iterations on exit of the loop
Iterate ==
  /\ phase = "input"
  /\ LET exit == complexLoop(loopInput(text, consoleMethods), << >>, 0,
                             consoleMethods)
     IN  /\ out' = exit.result
         /\ out2' = exit.previousResult
         /\ cnt' = exit.iterations
  /\ phase' = "iterated"
  /\ UNCHANGED <<text, consoleMethods, sysVars>>

NextLoop == Iterate

SpecLoop == InitLoop /\ [][NextLoop]_vars

(***************************************************************************)
(* Properties of the detector and the remover.                             *)
(***************************************************************************)
\* the index of the terminator of the line that starts at i (Len + 1: none)
LineEndFrom(s, i) == Min({e \in i..(Len(s) + 1) : IsLineEnd(s, e)})

HasConsole(s) == \E k \in 1..Len(s) : s[k] = "console"

\* a line that is empty or holds only spaces and tabs starts at i
BlankLineAt(s, i) ==
  i <= Len(s) /\ IsLineStart(s, i) /\ IsLineEnd(s, SkipBlank(s, i))

HasBlankLine(s) == \E i \in 1..Len(s) : BlankLineAt(s, i)

\* the line that starts at i is one console.method(args) call: optional
\* leading blanks, no semicolon in args, optional trailing semicolon
SoloCallLineAt(s, i, ms) ==
  LET e == LineEndFrom(s, i)
      b == SkipBlank(s, i)
  IN  /\ IsLineStart(s, i)
      /\ b + 3 < e
      /\ s[b] = "console" /\ s[b + 1] = "." /\ s[b + 2] \in ms
      /\ s[b + 3] = "("
      /\ \E j \in (b + 4)..(e - 1) :
           /\ s[j] = ")"
           /\ \A k \in (b + 4)..(j - 1) : s[k] \notin {";", "console"}
           /\ LET t == SkipBlank(s, j + 1)
              IN  \/ t = e
                  \/ t < e /\ s[t] = ";" /\ SkipBlank(s, t + 1) = e

\* the line that starts at i is a line comment that opens with a call
CommentedCallLineAt(s, i, ms) ==
  LET e == LineEndFrom(s, i)
      b == SkipBlank(s, i)
      c == SkipBlank(s, b + 2)
  IN  /\ IsLineStart(s, i)
      /\ c + 3 < e
      /\ s[b] = "/" /\ s[b + 1] = "/"
      /\ s[c] = "console" /\ s[c + 1] = "." /\ s[c + 2] \in ms
      /\ s[c + 3] = "("

\* s without the line that starts at i and without that line's terminator
WithoutLine(s, i) ==
  SubSeq(s, 1, i - 1) \o SubSeq(s, LineEndFrom(s, i) + 1, Len(s))

\* the line at i is terminated, and the rest of s holds no call and no
\* blank line
OnlyLineToRemove(s, i) ==
  /\ LineEndFrom(s, i) <= Len(s)
  /\ ~HasConsole(WithoutLine(s, i))
  /\ ~HasBlankLine(WithoutLine(s, i))

\* C1: removeStatements is idempotent:
\* removeStatements(removeStatements(T, M), M) = removeStatements(T, M).
C1_Idempotent == phase = "recleaned" => out2 = out

\* C2: if detectCount(T, M) is 0 then removeStatements(T, M) returns T
\* unchanged.
C2_NoCallUnchanged == (phase \in {"cleaned", "recleaned"} /\ cnt = 0) => out = text

\* C3: a line that consists solely of one console.method(args) call is
\* deleted together with its line terminator and the neighbouring lines are
\* left unchanged.
C3_SoloLineDeleted ==
  phase \in {"cleaned", "recleaned"} =>
    \A i \in 1..Len(text) :
      (SoloCallLineAt(text, i, consoleMethods) /\ OnlyLineToRemove(text, i))
        => out = WithoutLine(text, i)

\* C4: a line whose trimmed content is // followed by a console.method( call
\* is removed entirely, comment marker included.
C4_CommentedLineDeleted ==
  phase \in {"cleaned", "recleaned"} =>
    \A i \in 1..Len(text) :
      (CommentedCallLineAt(text, i, consoleMethods) /\ OnlyLineToRemove(text, i))
        => out = WithoutLine(text, i)

\* three consecutive lines, the first at i, are empty or hold only blanks
BlankRunAt(s, i) ==
  LET e1 == LineEndFrom(s, i)
      e2 == LineEndFrom(s, e1 + 1)
  IN  /\ BlankLineAt(s, i)
      /\ e1 < Len(s) /\ BlankLineAt(s, e1 + 1)
      /\ e2 < Len(s) /\ BlankLineAt(s, e2 + 1)

\* a line of spaces and tabs only starts at i
SpacesOnlyLineAt(s, i) ==
  IsLineStart(s, i) /\ SkipBlank(s, i) > i /\ IsLineEnd(s, SkipBlank(s, i))

\* C5: the text returned by removeStatements contains no run of 3 or more
\* consecutive blank or whitespace-only lines, and no line of spaces or tabs
\* only.
C5_NoBlankRun ==
  phase \in {"cleaned", "recleaned"} =>
    \A i \in 1..Len(out) : ~BlankRunAt(out, i) /\ ~SpacesOnlyLineAt(out, i)

\* an occurrence of console, white space, ".", white space, a method of ms,
\* white space, "(" starts at i
OccurrenceAt(s, i, ms) ==
  /\ s[i] = "console"
  /\ \E p \in (i + 3)..Len(s) :
       /\ s[p] = "("
       /\ LET NotSpace(c) == ~IsSpace(c)
              inner == SelectSeq(SubSeq(s, i + 1, p - 1), NotSpace)
          IN  Len(inner) = 2 /\ inner[1] = "." /\ inner[2] \in ms

Occurrences(s, ms) == {i \in 1..Len(s) : OccurrenceAt(s, i, ms)}

\* C6: detectCount(T, M) is the number of occurrences in T of console,
\* optional white space, ".", optional white space, a method of M, optional
\* white space, "("; it is 0 when there is none.
C6_CountsOccurrences ==
  phase # "input" => cnt = Cardinality(Occurrences(text, consoleMethods))

\* an occurrence that holds a line break was counted
C6_Witness ==
  /\ phase = "counted"
  /\ cnt = 1
  /\ \E i \in Occurrences(text, consoleMethods) :
       text[i + 1] = "\n"

(***************************************************************************)
(* The scan-result map.                                                    *)
(***************************************************************************)
\* the entry holds the count the detector returns on the file as it is now
CountIsCurrent(e) ==
  /\ disk[e.path].exists
  /\ e.count = countConsoleLogs(disk[e.path].text, consoleMethods)

\* C7: in every reachable state, every entry (path, n) of the scan-result map
\* whose file has not been modified since the scan read it holds the count
\* the detector returns when run again on the file's text, under any
\* interleaving of scans and cleans.
C7_CountMatchesDetector ==
  \A k \in 1..Len(filesWithConsoleLogs) :
    filesWithConsoleLogs[k].path \notin stale =>
      CountIsCurrent(filesWithConsoleLogs[k])

\* C8: in every reachable state every count stored in the scan-result map is
\* strictly positive: a file with no occurrence, or one that could not be
\* read, is never recorded.
C8_PositiveCounts ==
  \A k \in 1..Len(filesWithConsoleLogs) : filesWithConsoleLogs[k].count > 0

\* a scan has gone over a file without an occurrence and recorded the other
C8_Witness ==
  /\ events = 0
  /\ \A s \in ScanIds : scans[s].pc = "idle"
  /\ disk["a.js"] = File(<<"x">>)
  /\ Keys(filesWithConsoleLogs) = {"sub/b.js"}

\* a full scan starts
ScanStarts == \E s \in ScanIds : scans[s].pc = "idle" /\ scans'[s].pc # "idle"

\* a scan records the count of p
Recorded(p) ==
  \E s \in ScanIds :
    scans[s].pc = "count" /\ Head(scans[s].todo) = p /\ scans'[s].pc # "count"

\* clean-all or clean-one-file has cleaned p
CleanedNow(p) ==
  \/ /\ cleanAll.pc \in {"read", "write"}
     /\ cleanAll.filesList[cleanAll.i] = p
     /\ cleanAll'.cleanedCount = cleanAll.cleanedCount + 1
  \/ /\ cleanOne.pc \in {"read", "write"}
     /\ cleanOne.filePath = p
     /\ cleanOne'.pc = "done" /\ cleanOne'.success

\* a clean of a file has failed
CleanFailedNow ==
  \/ cleanAll.pc \in {"read", "write"}
       /\ cleanAll'.errorCount = cleanAll.errorCount + 1
  \/ cleanOne.pc \in {"read", "write"}
       /\ cleanOne'.pc = "done" /\ ~cleanOne'.success

\* the watcher reports p deleted
DeletedNow(p) == activated /\ disk[p].exists /\ ~disk'[p].exists

\* deactivate() runs
Deactivated == activated /\ ~activated'

\* what a step does to the scan-result map; other is a further cause for
\* which an entry may go
MapStep(other) ==
  /\ ScanStarts => filesWithConsoleLogs' = << >>
  /\ \A p \in Keys(filesWithConsoleLogs') \ Keys(filesWithConsoleLogs) :
       Recorded(p)
  /\ \A p \in Keys(filesWithConsoleLogs) \ Keys(filesWithConsoleLogs') :
       ScanStarts \/ CleanedNow(p) \/ DeletedNow(p) \/ other
  /\ CleanFailedNow => filesWithConsoleLogs' = filesWithConsoleLogs

\* C9 as stated: the scan-result map is emptied at the start of every full
\* scan and rebuilt from the files the scan visits; apart from that an entry
\* is removed only when its file is successfully cleaned or when the watcher
\* reports the file deleted; a file whose clean fails keeps its entry.
C9_AsStated == [][MapStep(FALSE)]_vars

\* C9: the scan-result map is emptied at the start of every full scan and
\* rebuilt from the files the scan visits; apart from that an entry is removed
\* only when its file is successfully cleaned, when the watcher reports the
\* file deleted, or when the extension is deactivated; a file whose clean
\* fails keeps its entry.
C9_EntryLifecycle == [][MapStep(Deactivated)]_vars

\* a clean of one file has failed and the file has kept its entry
C9_Witness ==
  /\ cleanOne.pc = "done" /\ ~cleanOne.success
  /\ cleanOne.filePath \in Keys(filesWithConsoleLogs)
  /\ \A s \in ScanIds : scans[s].pc = "idle"
  /\ startupTimer = -1 /\ scanTimeout = -1

IsPrefix(a, b) == Len(a) <= Len(b) /\ a = SubSeq(b, 1, Len(a))

IsSuffix(a, b) ==
  Len(a) <= Len(b) /\ a = SubSeq(b, Len(b) - Len(a) + 1, Len(b))

NoRepeat(q) == \A i, j \in 1..Len(q) : q[i] = q[j] => i = j

\* a clean-all run attempts the files of its list in order, each once, and
\* ends with every file attempted and counted
CleanAllAttempts ==
  /\ NoRepeat(cleanAll.filesList)
  /\ IsPrefix(cleanAll.attempted, cleanAll.filesList)
  /\ cleanAll.pc = "done" =>
       /\ cleanAll.attempted = cleanAll.filesList
       /\ cleanAll.cleanedCount + cleanAll.errorCount = Len(cleanAll.filesList)

\* a clean-all run lists the files of the scan-result map when it starts; a
\* scan ends only with nothing left to visit, and a step of it drops no more
\* than the entry it is at
SkipStep ==
  /\ (cleanAll.pc \in {"idle", "done"} /\ cleanAll'.pc \notin {"idle", "done"})
       => cleanAll'.filesList = MapKeyList(filesWithConsoleLogs)
  /\ (cleanAll.pc \notin {"idle", "done"} /\ cleanAll'.pc # "idle")
       => cleanAll'.filesList = cleanAll.filesList
  /\ \A s \in ScanIds :
       /\ (scans[s].pc # "idle" /\ scans'[s].pc = "idle")
            => scans[s].todo = << >>
       /\ (scans[s].pc # "idle" /\ scans[s].todo # << >>)
            => IsSuffix(Tail(scans[s].todo), scans'[s].todo)

\* C10: a file that cannot be read or written is counted as a failure for
\* that file only: a clean-all run attempts every file that was in the
\* scan-result map when it started exactly once, a failure never stops the
\* remaining files from being processed, and at the end cleanedCount +
\* errorCount is the number of files listed; an unreadable file or directory
\* never aborts a scan.
C10_FailureSkipsOneFile == []CleanAllAttempts /\ [][SkipStep]_vars

\* a clean-all run has ended with its first file failed and its second cleaned
C10_Witness ==
  /\ cleanAll.pc = "done"
  /\ cleanAll.errorCount = 1 /\ cleanAll.cleanedCount = 1
  /\ cleanAll.filesList[1] \in Keys(filesWithConsoleLogs)
  /\ cleanAll.filesList[2] \notin Keys(filesWithConsoleLogs)

(***************************************************************************)
(* The confirmation prompt and the write of a cleaned file.                *)
(***************************************************************************)
\* this step is clean-all writing a file, clean-one-file writing its file
CleanAllWrites ==
  cleanAll.pc = "write" /\ cleanAll'.cleanedCount = cleanAll.cleanedCount + 1

CleanOneWrites ==
  cleanOne.pc = "write" /\ cleanOne'.pc = "done" /\ cleanOne'.success

\* this step is the prompt of clean-all, of clean-one-file, being dismissed
CleanAllDismissed == cleanAll.pc = "confirm" /\ cleanAll'.pc = "idle"

CleanOneDismissed == cleanOne.pc = "confirm" /\ cleanOne'.pc = "idle"

PromptStep ==
  /\ CleanAllWrites =>
       (cleanAll.asked => cleanAll.answer = "Yes, Clean All")
  /\ CleanOneWrites => (cleanOne.asked => cleanOne.answer = "Yes, Clean")
  /\ (CleanAllDismissed \/ CleanOneDismissed) =>
       /\ disk' = disk
       /\ filesWithConsoleLogs' = filesWithConsoleLogs

\* C11: when confirmBeforeCleaning is enabled, clean-all and clean-one-file
\* rewrite no file unless the prompt of that invocation was answered with the
\* affirmative choice; a dismissed prompt leaves every file and the
\* scan-result map unchanged.
C11_NoWriteWithoutYes == [][PromptStep]_vars

\* clean-all has asked, was answered yes and has rewritten a file
C11_Witness ==
  /\ cleanAll.pc = "done"
  /\ cleanAll.asked /\ cleanAll.answer = "Yes, Clean All"
  /\ cleanAll.cleanedCount = 1
  /\ disk[cleanAll.filesList[1]] = File(<< >>)

\* cleanFile(p) has read p in this step: toWrite says that it goes on to
\* write cleanedText, success that it returns true without a write
ReadStep(p, toWrite, cleanedText, success) ==
  LET t == disk[p].text
      c == removeConsoleLogs(t, consoleMethods)
  IN  /\ disk' = disk
      /\ scanTimeout' = scanTimeout
      /\ toWrite => disk[p].exists /\ c # t /\ cleanedText = c
      /\ success => disk[p].exists /\ c = t
      /\ (disk[p].exists /\ c = t) => ~toWrite

WriteOnlyStep ==
  /\ (cleanOne.pc = "read" /\ cleanOne' # cleanOne) =>
       ReadStep(cleanOne.filePath, cleanOne'.pc = "write", cleanOne'.cleaned,
                cleanOne'.pc = "done" /\ cleanOne'.success)
  /\ (cleanAll.pc = "read" /\ cleanAll' # cleanAll) =>
       ReadStep(cleanAll.filesList[cleanAll.i], cleanAll'.pc = "write",
                cleanAll'.cleaned,
                cleanAll'.cleanedCount = cleanAll.cleanedCount + 1)

\* C12: cleaning a file writes it back only when the remover's output differs
\* from the text that was read: if the remover returns the text unchanged the
\* file is not written, and the clean is reported as a success.
C12_WriteOnlyIfChanged == [][WriteOnlyStep]_vars

\* clean-one-file has succeeded on a file the remover leaves as it is, and
\* nothing was written: the file is as it was and the watcher saw no change
C12_Witness ==
  /\ cleanOne.pc = "done" /\ cleanOne.success
  /\ disk[cleanOne.filePath].exists
  /\ disk[cleanOne.filePath].text # << >>
  /\ removeConsoleLogs(disk[cleanOne.filePath].text, consoleMethods)
       = disk[cleanOne.filePath].text
  /\ scanTimeout = -1

(***************************************************************************)
(* The debounced scan of the watcher.                                      *)
(***************************************************************************)
\* the watcher reports a file created or changed in this step
ChangeEvent ==
  /\ activated
  /\ \/ CleanAllWrites \/ CleanOneWrites
     \/ \E p \in Paths : disk'[p].exists /\ disk'[p] # disk[p]

\* a second passes in this step
SecondPasses ==
  \/ startupTimer > 0 /\ startupTimer' = startupTimer - 1
  \/ scanTimeout > 0 /\ scanTimeout' = scanTimeout - 1

\* the debounce timer fires in this step
TimerFires == scanTimeout = 0 /\ scanTimeout' = -1

\* scanWorkspace() is entered by something else than a command, the
\* configuration handler or the startup timer
WatcherScan ==
  ScanStarts /\ events' = events /\ startupTimer' = startupTimer

DebounceStep ==
  /\ ChangeEvent => scanTimeout' = DebounceDelay
  /\ SecondPasses =>
       /\ scanTimeout # 0
       /\ scanTimeout' = IF scanTimeout > 0 THEN scanTimeout - 1 ELSE -1
  /\ (~ChangeEvent /\ ~SecondPasses /\ scanTimeout' # scanTimeout) => TimerFires
  /\ WatcherScan => TimerFires
  /\ (TimerFires /\ workspaceOpen) => WatcherScan

\* C13: create and change events are debounced with a window of 2 seconds:
\* each event cancels the pending timer and starts a new one, so a burst of
\* events less than 2 seconds apart triggers exactly one workspace scan,
\* started 2 seconds after the last event of the burst, and no scan starts
\* while events keep arriving within the window.
C13_Debounced == [][DebounceStep]_vars

\* clean-all has written two files, two change events, and the one debounced
\* scan they set off is running
C13_Witness ==
  /\ cleanAll.pc = "done" /\ cleanAll.cleanedCount = 2
  /\ \A p \in Paths : disk[p] = File(<< >>)
  /\ scanTimeout = -1
  /\ scans[1].pc # "idle" /\ scans[2].pc = "idle"

(***************************************************************************)
(* The iterative pass.                                                     *)
(***************************************************************************)
\* the texts after 0, 1, ... n applications of the substitution of the
\* iterative pass to s
Applied(s, n, methods) ==
  LET r[k \in 0..n] ==
        IF k = 0 THEN s ELSE complexPass(r[k - 1], methods)
  IN  [k \in 0..n |-> r[k]]

\* C14: the iterative pass terminates: it applies its substitution at most 5
\* times, stops as soon as an application leaves the text unchanged, and on
\* exit either the last application changed nothing (a fixpoint is reached)
\* or exactly 5 applications were performed.
C14_LoopTerminates ==
  phase = "iterated" =>
    /\ cnt \in 0..maxIterations
    /\ LET r == Applied(loopInput(text, consoleMethods), cnt + 1,
                        consoleMethods)
       IN  /\ out = r[cnt]
           /\ \A k \in 1..(cnt - 1) : r[k] # r[k - 1]
           /\ cnt = maxIterations \/ r[cnt + 1] = r[cnt]
           /\ cnt > 0 => (out2 = r[cnt - 1] /\ (cnt = maxIterations \/ out2 = out))

\* the loop has stopped at the ceiling with calls still to erase
C14_Witness ==
  /\ phase = "iterated"
  /\ cnt = maxIterations
  /\ out2 # out
  /\ complexPass(out, consoleMethods) # out

(***************************************************************************)
(* Deleted files, the sidebar's flags, and what a clean leaves.            *)
(***************************************************************************)
\* C15: once the watcher has reported a file deleted, its path is absent from
\* the scan-result map and stays absent until a scan started after the
\* deletion records it again: while the watcher is on, no path of a file that
\* is not there is in the map; a scan that had read the file before it was
\* deleted does not put it back.
C15_DeletedPathAbsent ==
  activated => \A p \in Keys(filesWithConsoleLogs) : disk[p].exists

\* a scan runs; a clean runs, its prompt answered or not asked
ScanInProgress == \E s \in ScanIds : scans[s].pc # "idle"

CleanInProgress ==
  cleanAll.pc \in {"read", "write"} \/ cleanOne.pc \in {"read", "write"}

\* C16: whenever a scan or a clean is in progress the sidebar's isScanning or
\* isCleaning flag is true, also when operations overlap: the completion of
\* one operation does not clear the flag while another runs.
C16_BusyFlagSet ==
  (activated /\ (ScanInProgress \/ CleanInProgress)) =>
    (isScanning \/ isCleaning)

\* C17: when a clean of a file is reported as successful and its entry is
\* removed from the scan-result map, the file's text on disk holds no
\* occurrence the detector counts.
C17_CleanedHasNoCall ==
  [][\A p \in Keys(filesWithConsoleLogs) \ Keys(filesWithConsoleLogs') :
       (CleanedNow(p) /\ disk'[p].exists) =>
         countConsoleLogs(disk'[p].text, consoleMethods) = 0]_vars

====
